---- MODULE Spec2Model ----
(***************************************************************************)
(* Bumblebee: answers to the spelling-bee puzzle.                          *)
(*                                                                         *)
(* src/src/lib.rs  : check_word (validator + scorer) and find_all, the     *)
(*                   batch loop that collects Answer records.              *)
(* src/src/main.rs : is_valid_word (validator only), find_all (collects    *)
(*                   the words), find_all_with_dict and main (the CLI).    *)
(*                                                                         *)
(* A character is its Unicode scalar value; a string is a sequence of      *)
(* characters.  str::len() is the UTF-8 byte length, so it is computed     *)
(* from the characters' encoded widths.  The letters drawn below are       *)
(* single-byte letters, the domain the specification assumes (spec.md,     *)
(* section 1: "single-byte/character assumption for letters"); two of them *)
(* differ only in case.                                                    *)
(***************************************************************************)
EXTENDS Integers, Sequences, FiniteSets

\* ------------------------------------------------------------- bounds
MaxWordLen == 5
MaxExtraLen == 2
MaxLines == 3

\* 'e', 't' and 'T'
Chars == {101, 116, 84}

Words == UNION {[1..n -> Chars] : n \in 0..MaxWordLen}
Extras == UNION {[1..n -> Chars] : n \in 0..MaxExtraLen}

\* Candidate lines of a dictionary: "tee", "tete", "eeee", "Tete", "tetee".
DictWords ==
  { <<116, 101, 101>>,
    <<116, 101, 116, 101>>,
    <<101, 101, 101, 101>>,
    <<84, 101, 116, 101>>,
    <<116, 101, 116, 101, 101>> }

Inputs == UNION {[1..n -> DictWords] : n \in 0..MaxLines}

\* ------------------------------------------------- program constants
PANGRAM_SCORE_BOOST == 7
SCORE_MIN_LENGTH == 5
WORD_MIN_LENGTH == 4
MAIN_MIN_LENGTH == 4
APP_SHORT_NAME == "bumblebee"

\* ------------------------------------------------------------ strings
\* char::len_utf8: the number of bytes of a character's UTF-8 encoding.
Utf8Len(c) ==
  IF c < 128 THEN 1 ELSE IF c < 2048 THEN 2 ELSE IF c < 65536 THEN 3 ELSE 4

\* str::len(): the length of the string in bytes.
RECURSIVE StrLen(_)
StrLen(s) == IF s = <<>> THEN 0 ELSE Utf8Len(Head(s)) + StrLen(Tail(s))

\* str::contains(char) / chars().any(|e| e == c)
Contains(s, c) == \E i \in DOMAIN s : s[i] = c

\* word.to_string(): an owned copy of the same characters.
ToString(s) == [i \in 1..Len(s) |-> s[i]]

None == [some |-> FALSE]
Some(a) == [some |-> TRUE, val |-> a]

\* -------------------------------------------------------- lib.rs
word_too_short_le(word) == StrLen(word) <= WORD_MIN_LENGTH
word_too_short(word) == StrLen(word) < WORD_MIN_LENGTH

\* word.chars().all(|x| x == required || extra.chars().any(|e| e == x))
all_allowed(word, required, extra) ==
  \A i \in DOMAIN word : word[i] = required \/ Contains(extra, word[i])

\* The loop over extra.chars(): one increment per character of extra (per
\* occurrence, repeated ones too) that occurs in the word.
RECURSIVE count_matched(_, _, _)
count_matched(word, extra, count) ==
  IF extra = <<>> THEN count
  ELSE count_matched(word, Tail(extra),
                     IF Contains(word, Head(extra)) THEN count + 1 ELSE count)

uniq_count_distinct(word, extra) ==
  1 + Cardinality({extra[j] : j \in {k \in DOMAIN extra : Contains(word, extra[k])}})
uniq_count(word, extra) == count_matched(word, extra, 1)

is_pangram_dedup(word, extra) ==
  uniq_count(word, extra) = 1 + Cardinality({extra[j] : j \in DOMAIN extra})
is_pangram_nonempty(word, extra) ==
  extra # <<>> /\ uniq_count(word, extra) = 1 + StrLen(extra)
is_pangram(word, extra) == uniq_count(word, extra) = 1 + StrLen(extra)

\* `word.len() as i32`: the cast is exact for every length below 2^31, which
\* covers every word drawn here.
base_score_gt(word) ==
  IF StrLen(word) > SCORE_MIN_LENGTH THEN StrLen(word) ELSE 1
base_score_zero(word) ==
  IF StrLen(word) >= SCORE_MIN_LENGTH THEN StrLen(word) ELSE 0
base_score(word) ==
  IF StrLen(word) >= SCORE_MIN_LENGTH THEN StrLen(word) ELSE 1

boosted_always(score, pangram) == score + PANGRAM_SCORE_BOOST
boosted(score, pangram) ==
  IF pangram THEN score + PANGRAM_SCORE_BOOST ELSE score

check_word(word, required, extra) ==
  IF word_too_short(word) THEN None
  ELSE IF ~Contains(word, required) THEN None
  ELSE IF all_allowed(word, required, extra)
       THEN Some([word |-> ToString(word),
                  score |-> boosted(base_score(word), is_pangram(word, extra)),
                  is_pangram |-> is_pangram(word, extra)])
       ELSE None

\* -------------------------------------------------------- main.rs
is_valid_word_le(word, required, extra) ==
  IF StrLen(word) <= MAIN_MIN_LENGTH THEN FALSE
  ELSE IF ~Contains(word, required) THEN FALSE
  ELSE \A i \in DOMAIN word : word[i] = required \/ Contains(extra, word[i])
is_valid_word(word, required, extra) ==
  IF StrLen(word) < MAIN_MIN_LENGTH THEN FALSE
  ELSE IF ~Contains(word, required) THEN FALSE
  ELSE \A i \in DOMAIN word : word[i] = required \/ Contains(extra, word[i])

\* main.rs find_all: the loop, pushing each word that is_valid_word accepts.
RECURSIVE find_all_loop(_, _, _, _)
find_all_loop(words, required, extra, answers) ==
  IF words = <<>> THEN answers
  ELSE find_all_loop(Tail(words), required, extra,
                     IF is_valid_word(Head(words), required, extra)
                     THEN Append(answers, ToString(Head(words)))
                     ELSE answers)

find_all(words, required, extra) == find_all_loop(words, required, extra, <<>>)

LoadErrorMessage == <<APP_SHORT_NAME, " error: Failed to load dictionary (", "io::Error", ")">>
PanicMessage == <<"panicked", "Failed to read line from dictionary">>

\* --------------------------------------------------------------- state
VARIABLES
  required,   \* the puzzle's required character
  extra,      \* the puzzle's extra characters
  pc,         \* which call is in progress and where
  word,       \* the argument of check_word / is_valid_word
  answer,     \* what check_word returned
  valid,      \* what is_valid_word returned
  input,      \* the candidates given to find_all / the lines of the dictionary
  idx,        \* lib.rs find_all: number of candidates consumed by the loop
  answers,    \* lib.rs find_all: the answers vector
  words,      \* main: the Ok(words) of find_all_with_dict
  failure,    \* main: the dictionary-load failure of the run
  stdout,     \* main: lines printed to standard output
  stderr,     \* main: what was written to standard error
  status      \* main: how the process ended

vars == <<required, extra, pc, word, answer, valid, input, idx, answers,
          words, failure, stdout, stderr, status>>

unit == <<word, answer, valid>>
batch == <<input, idx, answers>>
cli == <<words, failure, stdout, stderr, status>>
params == <<required, extra>>

Init ==
  /\ required \in Chars
  /\ extra \in Extras
  /\ pc = "idle"
  /\ word = <<>>
  /\ answer = None
  /\ valid = FALSE
  /\ input = <<>>
  /\ idx = 0
  /\ answers = <<>>
  /\ words = <<>>
  /\ failure = "none"
  /\ stdout = <<>>
  /\ stderr = <<>>
  /\ status = "running"

\* A caller calls lib.rs check_word on a word.
CheckWord ==
  /\ pc = "idle"
  /\ \E w \in Words :
       /\ word' = w
       /\ answer' = check_word(w, required, extra)
  /\ pc' = "checked"
  /\ UNCHANGED <<params, valid, batch, cli>>

\* A caller calls main.rs is_valid_word on a word.
IsValidWord ==
  /\ pc = "idle"
  /\ \E w \in Words :
       /\ word' = w
       /\ valid' = is_valid_word(w, required, extra)
  /\ pc' = "validated"
  /\ UNCHANGED <<params, answer, batch, cli>>

\* lib.rs find_all is called: the answers vector starts empty.
FindAll_Call ==
  /\ pc = "idle"
  /\ \E ws \in Inputs : input' = ws
  /\ idx' = 0
  /\ answers' = <<>>
  /\ pc' = "loop"
  /\ UNCHANGED <<params, unit, cli>>

FindAll_Step_Prepend ==
  /\ pc = "loop"
  /\ idx < Len(input)
  /\ LET r == check_word(input[idx + 1], required, extra)
     IN answers' = IF r.some THEN <<r.val>> \o answers ELSE answers
  /\ idx' = idx + 1
  /\ UNCHANGED <<params, pc, input, unit, cli>>

\* One iteration of the loop of lib.rs find_all.
FindAll_Step ==
  /\ pc = "loop"
  /\ idx < Len(input)
  /\ LET r == check_word(input[idx + 1], required, extra)
     IN answers' = IF r.some THEN Append(answers, r.val) ELSE answers
  /\ idx' = idx + 1
  /\ UNCHANGED <<params, pc, input, unit, cli>>

\* The loop of lib.rs find_all is over: answers is returned.
FindAll_Return ==
  /\ pc = "loop"
  /\ idx = Len(input)
  /\ pc' = "returned"
  /\ UNCHANGED <<params, input, idx, answers, unit, cli>>

\* main calls find_all_with_dict and File::open fails: `?` returns the error.
Main_OpenFails ==
  /\ pc = "idle"
  /\ failure' = "open"
  /\ pc' = "err"
  /\ UNCHANGED <<params, unit, batch, words, stdout, stderr, status>>

\* main calls find_all_with_dict, the file opens, and a line cannot be read
\* or decoded after the lines ws: expect() panics inside find_all's loop.
Main_ReadFails ==
  /\ pc = "idle"
  /\ \E ws \in Inputs : input' = ws
  /\ failure' = "read"
  /\ stderr' = PanicMessage
  /\ status' = "panicked"
  /\ pc' = "exit"
  /\ UNCHANGED <<params, unit, idx, answers, words, stdout>>

\* main calls find_all_with_dict and every line is read: Ok(find_all(lines)).
Main_Loaded ==
  /\ pc = "idle"
  /\ \E ws \in Inputs :
       /\ input' = ws
       /\ words' = find_all(ws, required, extra)
  /\ pc' = "ok"
  /\ UNCHANGED <<params, unit, idx, answers, failure, stdout, stderr, status>>

\* main, Ok arm: println! of the next word.
Main_Print ==
  /\ pc = "ok"
  /\ Len(stdout) < Len(words)
  /\ stdout' = Append(stdout, words[Len(stdout) + 1])
  /\ UNCHANGED <<params, pc, unit, batch, words, failure, stderr, status>>

\* main, Ok arm: the loop is over and main returns.
Main_Return ==
  /\ pc = "ok"
  /\ Len(stdout) = Len(words)
  /\ status' = "returned"
  /\ pc' = "exit"
  /\ UNCHANGED <<params, unit, batch, words, failure, stdout, stderr>>

\* main, Err arm: eprintln! of the message, then main returns.
Main_ReportError ==
  /\ pc = "err"
  /\ stderr' = LoadErrorMessage
  /\ status' = "returned"
  /\ pc' = "exit"
  /\ UNCHANGED <<params, unit, batch, words, failure, stdout>>

Next ==
  \/ CheckWord
  \/ IsValidWord
  \/ FindAll_Call
  \/ FindAll_Step
  \/ FindAll_Return
  \/ Main_OpenFails
  \/ Main_ReadFails
  \/ Main_Loaded
  \/ Main_Print
  \/ Main_Return
  \/ Main_ReportError

Spec == Init /\ [][Next]_vars

\* ------------------------------------------------------------- claims
\* The set of distinct characters of a string.
CharSet(s) == {s[i] : i \in DOMAIN s}

\* The letters a word may use.
AllowedLetters == {required} \cup CharSet(extra)

\* The three validator rules, on characters.
Acceptable(w) ==
  /\ Len(w) >= 4
  /\ required \in CharSet(w)
  /\ CharSet(w) \subseteq AllowedLetters

\* The scoring rule without the bonus: 1 for four letters, else the length.
ExpectedBase(w) == IF Len(w) = 4 THEN 1 ELSE Len(w)

Accepted == pc = "checked" /\ answer.some

\* C1: check_word returns Some, and is_valid_word returns true, exactly for
\* the words of at least 4 characters that contain required and whose
\* characters all equal required or occur in extra; otherwise None / false.
C1_ValidatorRules ==
  /\ pc = "checked" => (answer.some <=> Acceptable(word))
  /\ pc = "validated" => (valid <=> Acceptable(word))

C1_Witness ==
  /\ Accepted
  /\ Len(word) = 4
  /\ CharSet(word) # {required}

\* The word uses every allowed letter.
UsesEveryLetter(w) == AllowedLetters \subseteq CharSet(w)

\* The number of distinct allowed letters occurring in the word.
DistinctUsed(w) == Cardinality(CharSet(w) \cap AllowedLetters)

\* C2 (as stated): for a valid word, is_pangram holds iff the word contains
\* every distinct letter of {required} + extra, i.e. iff the number of
\* distinct allowed letters in the word is 1 + the number of distinct
\* characters of extra.
C2_PangramAsStated ==
  Accepted =>
    /\ answer.val.is_pangram <=> UsesEveryLetter(word)
    /\ answer.val.is_pangram <=>
         (DistinctUsed(word) = 1 + Cardinality(CharSet(extra)))

\* C2 (amended): for a valid word, is_pangram holds iff the word contains
\* every distinct letter of {required} + extra, i.e. iff the number of
\* distinct allowed letters in the word is the number of distinct letters of
\* {required} + extra (1 + the number of distinct characters of extra other
\* than required); repeated characters in extra change nothing.
C2_PangramUsesEveryLetter ==
  Accepted =>
    /\ answer.val.is_pangram <=> UsesEveryLetter(word)
    /\ answer.val.is_pangram <=>
         (DistinctUsed(word) = 1 + Cardinality(CharSet(extra) \ {required}))

C2_Witness ==
  /\ Accepted
  /\ answer.val.is_pangram
  /\ Contains(extra, required)
  /\ Cardinality(CharSet(extra)) = 2

\* C3: a valid word that is not a pangram scores 1 when it has exactly 4
\* characters and its length when it has 5 or more.
C3_BaseScore ==
  (Accepted /\ ~answer.val.is_pangram) =>
    /\ Len(word) = 4 => answer.val.score = 1
    /\ Len(word) >= 5 => answer.val.score = Len(word)

C3_Witness ==
  /\ Accepted
  /\ ~answer.val.is_pangram
  /\ Len(word) = 5
  /\ answer.val.score = 5

\* C4: a valid pangram scores the base score plus 7, and a valid word that is
\* not a pangram gets no bonus.
C4_PangramBonus ==
  Accepted =>
    answer.val.score =
      ExpectedBase(word) + (IF answer.val.is_pangram THEN 7 ELSE 0)

C4_Witness ==
  /\ Accepted
  /\ answer.val.is_pangram
  /\ extra # <<>>
  /\ Len(word) = 5
  /\ answer.val.score = 12

\* The records of the candidates of ws that pass check_word, in input order.
RECURSIVE StableFilter(_)
StableFilter(ws) ==
  IF ws = <<>> THEN <<>>
  ELSE LET r == check_word(Head(ws), required, extra)
       IN (IF r.some THEN <<r.val>> ELSE <<>>) \o StableFilter(Tail(ws))

InFindAll == pc \in {"loop", "returned"}

\* C5: once the loop of find_all has consumed the first k candidates, answers
\* holds one record per valid candidate among them, in input order, each
\* equal to check_word's result; it returns after the last candidate, and an
\* empty input gives an empty output.
C5_StableFilter ==
  InFindAll =>
    /\ idx \in 0..Len(input)
    /\ answers = StableFilter(SubSeq(input, 1, idx))
    /\ pc = "returned" => idx = Len(input)

C5_Witness ==
  /\ pc = "returned"
  /\ Len(input) = 3
  /\ Len(answers) = 2
  /\ ~check_word(input[2], required, extra).some
  /\ answers[1].word = input[1]
  /\ answers[2].word = input[3]
  /\ input[1] # input[3]

\* extra without the occurrences of required.
WithoutRequired(e) == SelectSeq(e, LAMBDA c : c # required)

\* C6: check_word gives the same result for any two extra strings with the
\* same set of distinct characters, and for an extra string containing
\* required the same result as with required removed from it.
C6_ExtraIsASet ==
  pc = "checked" =>
    /\ \A e2 \in Extras :
         CharSet(e2) = CharSet(extra) => check_word(word, required, e2) = answer
    /\ check_word(word, required, WithoutRequired(extra)) = answer

C6_Witness ==
  /\ Accepted
  /\ answer.val.is_pangram
  /\ Len(extra) = 2
  /\ extra[1] = extra[2]
  /\ extra[1] # required

\* C7: every Answer of check_word or find_all carries the candidate word as
\* given (same characters, same case) and a score of at least 1.
C7_AnswerRecord ==
  /\ Accepted => (answer.val.word = word /\ answer.val.score >= 1)
  /\ InFindAll =>
       \A i \in DOMAIN answers :
         /\ answers[i].score >= 1
         /\ \E j \in 1..idx : input[j] = answers[i].word

C7_Witness ==
  /\ Accepted
  /\ ~answer.val.is_pangram
  /\ Len(word) = 4
  /\ CharSet(word) = {84, 116}

\* C8: every dictionary-load failure ends with the message 'bumblebee error:
\* Failed to load dictionary (..)' on standard error, no answer printed and
\* the process not terminated abnormally.
C8_LoadFailureReported ==
  (failure # "none" /\ pc = "exit") =>
    /\ stderr = LoadErrorMessage
    /\ stdout = <<>>
    /\ status = "returned"

\* C8, the part that holds: a failure to open the dictionary is reported with
\* the message and main returns; no failure of either kind prints an answer.
C8_OpenFailureReported ==
  /\ (failure = "open" /\ pc = "exit") =>
       (stderr = LoadErrorMessage /\ status = "returned")
  /\ failure # "none" => stdout = <<>>

\* The word fields of a vector of answers.
WordsOf(as) == [i \in 1..Len(as) |-> as[i].word]

\* C9: is_valid_word returns true exactly when check_word returns Some, and
\* the words main.rs find_all returns are the word fields of the records
\* lib.rs find_all returns.
C9_VariantsAgree ==
  /\ pc = "checked" => (answer.some <=> is_valid_word(word, required, extra))
  /\ pc = "validated" => (valid <=> check_word(word, required, extra).some)
  /\ InFindAll =>
       WordsOf(answers) = find_all(SubSeq(input, 1, idx), required, extra)
  /\ pc = "ok" => words = WordsOf(StableFilter(input))

C9_Witness ==
  /\ pc = "returned"
  /\ Len(input) = 2
  /\ Len(answers) = 1
  /\ find_all(input, required, extra) = <<input[2]>>

\* C10: with extra empty, every accepted word has 4 or more characters all
\* equal to required, is a pangram, and scores 8 for length 4 and length + 7
\* for length 5 or more.
C10_EmptyExtraAlwaysPangram ==
  (Accepted /\ extra = <<>>) =>
    /\ Len(word) >= 4
    /\ CharSet(word) = {required}
    /\ answer.val.is_pangram
    /\ answer.val.score = (IF Len(word) = 4 THEN 8 ELSE Len(word) + 7)

C10_Witness ==
  /\ Accepted
  /\ extra = <<>>
  /\ Len(word) = 5
  /\ answer.val.score = 12

====
